---- MODULE Spec2Model ----
(***************************************************************************)
(* Model of the multi-line card extraction of logseq-anki-sync:            *)
(*   - MultilineCardNote: getCardDirection, getChildrenMaxDepth,           *)
(*     getFieldContent, getChildrenContent, getClozedContentHTML;          *)
(*   - NoteUtils.matchTagNamesWithTagIds;                                  *)
(*   - MultilineCardNote.getNotesFromLogseqBlocks;                         *)
(*   - the occlusion editor (OcclusionEditor and its component).           *)
(* JavaScript values are tagged records, strings are TLA+ strings, HTML is *)
(* a sequence of tokens.                                                   *)
(***************************************************************************)
EXTENDS Integers, Sequences, FiniteSets, TLC

VARIABLES
    note,   \* the MultilineCardNote under test (SpecNote)
    call,   \* the last method called on it, with its argument and result
    mt,     \* one run of NoteUtils.matchTagNamesWithTagIds (SpecTags)
    ex,     \* one run of getNotesFromLogseqBlocks (SpecExtract)
    ed      \* one occlusion editor, from its opening on (SpecEditor)

noteVars == <<note, call>>
tagVars == <<mt>>
extractVars == <<ex>>
editorVars == <<ed>>
vars == <<note, call, mt, ex, ed>>

\* The value of a variable group while another specification runs.
Idle == [idle |-> TRUE]

-----------------------------------------------------------------------------
(* Bounds of the model *)

\* depth-0 .. depth-MaxDepthTag are the depth tags a note under test may carry
MaxDepthTag == 2
\* the children of a note under test have at most MaxNodes descendants in all
MaxNodes == 4
\* matchTagNamesWithTagIds is run on at most MaxTagNames candidate names,
MaxTagNames == 2
\* at most MaxTagIds tag ids,
MaxTagIds == 2
\* and pages with the ids 1..MaxPageId
MaxPageId == 2
\* getNotesFromLogseqBlocks runs on a graph of one block whose attributes
\* vary and at most MaxSiblings plain blocks beside it
MaxSiblings == 1
\* the occlusion editor is opened with at most MaxPassed occlusions,
MaxPassed == 2
\* the user adds at most MaxAdded occlusions
MaxAdded == 2
\* and uses the cloze ids 1..MaxCId
MaxCId == 2

-----------------------------------------------------------------------------
(* JavaScript values *)

Undefined == [t |-> "undefined"]
Str(s) == [t |-> "string", s |-> s]
Num(n) == [t |-> "number", n |-> n]
Bool(b) == [t |-> "boolean", b |-> b]

\* JavaScript truthiness: undefined, "", 0 and false are falsy.
Truthy(v) ==
    CASE v.t = "undefined" -> FALSE
      [] v.t = "string" -> v.s # ""
      [] v.t = "number" -> v.n # 0
      [] v.t = "boolean" -> v.b

Digit == <<"0", "1", "2", "3", "4", "5", "6", "7", "8", "9">>

RECURSIVE NumToString(_)
NumToString(n) ==
    IF n < 10 THEN Digit[n + 1]
    ELSE NumToString(n \div 10) \o Digit[(n % 10) + 1]

\* value.toString() of a primitive (undefined has no toString: a TypeError).
toString(v) ==
    CASE v.t = "string" -> [threw |-> FALSE, value |-> v.s]
      [] v.t = "number" -> [threw |-> FALSE, value |-> NumToString(v.n)]
      [] v.t = "boolean" -> [threw |-> FALSE, value |-> IF v.b THEN "true" ELSE "false"]
      [] OTHER -> [threw |-> TRUE]

StartsWith(s, p) == Len(s) >= Len(p) /\ SubSeq(s, 1, Len(p)) = p

\* s.includes(p)
Includes(s, p) ==
    \E i \in 1..(Len(s) - Len(p) + 1) : SubSeq(s, i, i + Len(p) - 1) = p

Upper == <<"A", "B", "C", "D", "E", "F", "G", "H", "I", "J", "K", "L", "M",
           "N", "O", "P", "Q", "R", "S", "T", "U", "V", "W", "X", "Y", "Z">>
Lower == <<"a", "b", "c", "d", "e", "f", "g", "h", "i", "j", "k", "l", "m",
           "n", "o", "p", "q", "r", "s", "t", "u", "v", "w", "x", "y", "z">>

LowerChar(c) ==
    IF \E i \in 1..26 : Upper[i] = c
    THEN Lower[CHOOSE i \in 1..26 : Upper[i] = c]
    ELSE c

RECURSIVE ToLowerCase(_)
ToLowerCase(s) ==
    IF Len(s) = 0 THEN ""
    ELSE LowerChar(SubSeq(s, 1, 1)) \o ToLowerCase(SubSeq(s, 2, Len(s)))

IsDigit(c) == \E i \in 1..10 : Digit[i] = c
DigitValue(c) == (CHOOSE i \in 1..10 : Digit[i] = c) - 1

AllDigits(s) == Len(s) > 0 /\ \A i \in 1..Len(s) : IsDigit(SubSeq(s, i, i))

RECURSIVE ParseInt(_)
ParseInt(s) ==
    IF Len(s) = 0 THEN 0
    ELSE 10 * ParseInt(SubSeq(s, 1, Len(s) - 1)) + DigitValue(SubSeq(s, Len(s), Len(s)))

Range(s) == {s[i] : i \in 1..Len(s)}

-----------------------------------------------------------------------------
(* MultilineCardNote: the methods of one note *)

\* The property keys a note under test may carry; any other key is absent.
PropKeys == {"direction", "depth", "anki-model", "anki-field-Front",
             "anki-field-Back", "hint"}

\* this.properties[key], undefined for a key the block does not have
Prop(n, key) == IF key \in DOMAIN n.properties THEN n.properties[key] ELSE Undefined

\* The candidate names of getRelevantTags: the four direction markers and
\* depth-0 .. depth-9 (Array.from({length: 10}, (_, i) => `depth-${i}`)).
RelevantTagNames ==
    <<"forward", "reversed", "bidirectional", "incremental">>
        \o [i \in 1..10 |-> "depth-" \o NumToString(i - 1)]

Includes_tag(tags, name) == \E i \in 1..Len(tags) : tags[i] = name

getCardDirection_TagsFirst(n) ==
    IF (Includes_tag(n.tags, "reversed") /\ Includes_tag(n.tags, "forward"))
           \/ Includes_tag(n.tags, "bidirectional")
    THEN Str("<->")
    ELSE IF Includes_tag(n.tags, "reversed") THEN Str("<-")
    ELSE IF Includes_tag(n.tags, "forward") THEN Str("->")
    ELSE IF Prop(n, "direction") \in {Str("->"), Str("<-"), Str("<->")}
    THEN Prop(n, "direction")
    ELSE Str("->")

getCardDirection_ReversedFirst(n) ==
    LET direction == Prop(n, "direction") IN
    IF direction # Str("->") /\ direction # Str("<-") /\ direction # Str("<->")
    THEN IF Includes_tag(n.tags, "reversed") THEN Str("<-")
         ELSE IF Includes_tag(n.tags, "bidirectional") THEN Str("<->")
         ELSE Str("->")
    ELSE direction

getCardDirection(n) ==
    LET direction == Prop(n, "direction") IN
    IF direction # Str("->") /\ direction # Str("<-") /\ direction # Str("<->")
    THEN IF (Includes_tag(n.tags, "reversed") /\ Includes_tag(n.tags, "forward"))
                \/ Includes_tag(n.tags, "bidirectional")
         THEN Str("<->")
         ELSE IF Includes_tag(n.tags, "reversed") THEN Str("<-")
         ELSE Str("->")
    ELSE direction

\* /^depth-(\d+)$/i.exec(tag): the match, and parseInt of its group
DepthTagMatch(tag) ==
    /\ Len(tag) > 6
    /\ ToLowerCase(SubSeq(tag, 1, 6)) = "depth-"
    /\ AllDigits(SubSeq(tag, 7, Len(tag)))
DepthTagValue(tag) == ParseInt(SubSeq(tag, 7, Len(tag)))

\* for (const tag of this.tags) ... maxDepth = parseInt(match[1])
RECURSIVE DepthLoop(_, _, _)
DepthLoop(tags, i, maxDepth) ==
    IF i > Len(tags) THEN maxDepth
    ELSE DepthLoop(tags, i + 1,
                   IF DepthTagMatch(tags[i]) THEN Num(DepthTagValue(tags[i]))
                   ELSE maxDepth)

RECURSIVE DepthLoop_FirstWins(_, _, _, _)
DepthLoop_FirstWins(tags, i, maxDepth, found) ==
    IF i > Len(tags) THEN maxDepth
    ELSE IF DepthTagMatch(tags[i]) /\ ~found
    THEN DepthLoop_FirstWins(tags, i + 1, Num(DepthTagValue(tags[i])), TRUE)
    ELSE DepthLoop_FirstWins(tags, i + 1, maxDepth, found)

getChildrenMaxDepth_FirstWins(n) ==
    DepthLoop_FirstWins(n.tags, 1,
        IF Truthy(Prop(n, "depth")) THEN Prop(n, "depth") ELSE Num(9999), FALSE)

getChildrenMaxDepth(n) ==
    DepthLoop(n.tags, 1,
        IF Truthy(Prop(n, "depth")) THEN Prop(n, "depth") ELSE Num(9999))

LevelReached_OffByOne(level, maxDepth) ==
    CASE maxDepth.t = "number" -> level > maxDepth.n
      [] maxDepth.t = "boolean" -> level > (IF maxDepth.b THEN 1 ELSE 0)
      [] OTHER -> FALSE

\* level >= maxDepth, as JavaScript compares a number with any value: a
\* boolean counts as 0 or 1, a string that is no number as NaN (never >=).
\* The host parses an all-digit property into a number, so a string-valued
\* depth is never numeric.
LevelReached(level, maxDepth) ==
    CASE maxDepth.t = "number" -> level >= maxDepth.n
      [] maxDepth.t = "boolean" -> level >= (IF maxDepth.b THEN 1 ELSE 0)
      [] OTHER -> FALSE

\* The HTML of one child: its <li>, its rendered content (escaped, with the
\* extra annotation when properties.extra is truthy), the list of its own
\* children, and </li>.
RECURSIVE getChildrenListHTML(_, _, _)
getChildItemHTML_ListAfterItem(child, level, maxDepth) ==
    <<[tok |-> "li",
       numbered |-> (child.properties.orderListType = Str("number"))]>>
    \o <<[tok |-> "html", content |-> child.content,
          extra |-> IF Truthy(child.properties.extra)
                    THEN child.properties.extra ELSE Undefined]>>
    \o <<[tok |-> "/li"]>>
    \o (IF Len(child.children) > 0
        THEN getChildrenListHTML(child.children, level + 1, maxDepth)
        ELSE <<>>)

getChildItemHTML(child, level, maxDepth) ==
    <<[tok |-> "li",
       numbered |-> (child.properties.orderListType = Str("number"))]>>
    \o <<[tok |-> "html", content |-> child.content,
          extra |-> IF Truthy(child.properties.extra)
                    THEN child.properties.extra ELSE Undefined]>>
    \o (IF Len(child.children) > 0
        THEN getChildrenListHTML(child.children, level + 1, maxDepth)
        ELSE <<>>)
    \o <<[tok |-> "/li"]>>

RECURSIVE ChildItemsHTML(_, _, _, _)
ChildItemsHTML(childrenList, i, level, maxDepth) ==
    IF i > Len(childrenList) THEN <<>>
    ELSE getChildItemHTML(childrenList[i], level, maxDepth)
         \o ChildItemsHTML(childrenList, i + 1, level, maxDepth)

getChildrenListHTML(childrenList, level, maxDepth) ==
    IF LevelReached(level, maxDepth) THEN <<>>
    ELSE <<[tok |-> "ul"]>>
         \o ChildItemsHTML(childrenList, 1, level, maxDepth)
         \o <<[tok |-> "/ul"]>>

getChildrenContent(n) == getChildrenListHTML(n.children, 0, getChildrenMaxDepth(n))

\* convertToHTMLFile(this.content, this.format).html
ContentHTML(n) == <<[tok |-> "html", content |-> n.content, extra |-> Undefined]>>

\* A string as HTML: the empty string is the empty fragment.
Text(s) == IF s = "" THEN <<>> ELSE <<[tok |-> "text", s |-> s]>>

getFieldContent(n, fieldMapping) ==
    CASE fieldMapping = "content" -> [threw |-> FALSE, value |-> ContentHTML(n)]
      [] fieldMapping = "children" -> [threw |-> FALSE, value |-> getChildrenContent(n)]
      [] OTHER ->
         IF Truthy(Prop(n, fieldMapping))
         THEN LET s == toString(Prop(n, fieldMapping)) IN
              IF s.threw THEN s ELSE [threw |-> FALSE, value |-> Text(s.value)]
         ELSE [threw |-> FALSE, value |-> <<>>]

\* key.replace("anki-field-", "") of a key that starts with "anki-field-"
FieldName(key) == SubSeq(key, 12, Len(key))

\* The keys of this.properties that declare a field.
FieldKeys(n) ==
    {k \in DOMAIN n.properties :
        n.properties[k] # Undefined /\ StartsWith(k, "anki-field-")}

\* fieldContent after the loop over Object.entries(this.properties)
DeclaredFields(n) ==
    [name \in {FieldName(k) : k \in FieldKeys(n)} |->
        LET k == CHOOSE k \in FieldKeys(n) : FieldName(k) = name
            mapping == toString(n.properties[k]).value
        IN getFieldContent(n, mapping).value]

IsClozeModel_CaseSensitive(ankiModel) == Includes(ankiModel.s, "cloze")

\* ankiModel.toLowerCase().includes("cloze")
IsClozeModel(ankiModel) == Includes(ToLowerCase(ankiModel.s), "cloze")

MainContent_ReversedOnly(n) ==
    LET direction == getCardDirection(n) IN
    IF direction = Str("<-")
    THEN getFieldContent(n, "children").value
    ELSE getFieldContent(n, "content").value

\* The main content: the children list for a reversed or bidirectional card.
MainContent(n) ==
    LET direction == getCardDirection(n) IN
    IF direction = Str("<-") \/ direction = Str("<->")
    THEN getFieldContent(n, "children").value
    ELSE getFieldContent(n, "content").value

\* The returned html holds ankiModel, JSON.stringify(fieldContent) and
\* mainContent; assets and tags are empty.
getClozedContentHTML(n) ==
    LET declared == DeclaredFields(n)
        mainContent == MainContent(n)
        ankiModel == IF Truthy(Prop(n, "anki-model"))
                     THEN Prop(n, "anki-model") ELSE Str("Basic")
        fieldContent ==
            IF DOMAIN declared = {}
            THEN IF IsClozeModel(ankiModel)
                 THEN [f \in {"Text"} |-> mainContent]
                 ELSE [f \in {"Front", "Back"} |->
                          IF f = "Front" THEN mainContent
                          ELSE getFieldContent(n, "children").value]
            ELSE declared
    IN [ankiModel |-> ankiModel, fieldContent |-> fieldContent,
        mainContent |-> mainContent, assets |-> {}, tags |-> <<>>]

-----------------------------------------------------------------------------
(* The notes under test *)

PlainChild == [orderListType |-> Undefined, extra |-> Undefined]
NumberedChild == [orderListType |-> Str("number"), extra |-> Str("more")]

\* The ordered forests of k blocks in all, below the block at `path`, the
\* first of them being child number idx. A block's content is its path.
RECURSIVE Forests(_, _, _, _)
Forests(k, path, idx, props) ==
    IF k = 0 THEN {<<>>}
    ELSE UNION {
        {<<[content |-> Append(path, idx), properties |-> props, children |-> c]>> \o r :
            c \in Forests(j - 1, Append(path, idx), 1, props),
            r \in Forests(k - j, path, idx + 1, props)} : j \in 1..k}

ChildrenLists ==
    UNION {Forests(k, <<>>, 1, PlainChild) : k \in 0..MaxNodes}
        \cup UNION {Forests(k, <<>>, 1, NumberedChild) : k \in 1..2}

OneChild == <<[content |-> <<1>>, properties |-> PlainChild, children |-> <<>>]>>

\* The tag lists getRelevantTags can return over the names of S: candidate
\* order, no repetition.
TagLists(S) == {SelectSeq(RelevantTagNames, LAMBDA t : t \in T) : T \in SUBSET S}

DirectionTags == {"forward", "reversed", "bidirectional"}
DepthTags == {"depth-" \o NumToString(i) : i \in 0..MaxDepthTag}

NoProperties == [k \in PropKeys |-> Undefined]

DirectionValues == {Undefined, Str("->"), Str("<-"), Str("<->"), Str("both"), Bool(FALSE)}
DepthValues == {Undefined, Num(0), Num(1), Num(2), Num(3), Str("deep"), Bool(TRUE)}
HintValues == {Undefined, Str(""), Str("x"), Num(0), Num(7), Bool(FALSE), Bool(TRUE)}
ModelValues == {Undefined, Str(""), Str("Basic"), Str("Cloze"),
                Str("My CLOZE deck"), Str("Close")}
FrontMappings == {Undefined, Str("content"), Str("children"), Str("hint"), Str("nosuch")}
BackMappings == {Undefined, Str("children")}

MakeNote(uuid, properties, tags, children) ==
    [uuid |-> uuid, content |-> <<>>, properties |-> properties,
     tags |-> tags, children |-> children]

\* direction x every tag list
DirectionNotes ==
    {MakeNote("u1", [NoProperties EXCEPT !["direction"] = d], tags, OneChild) :
        d \in DirectionValues,
        tags \in TagLists(DirectionTags \cup {"incremental"} \cup DepthTags)}

\* depth property x depth tags x children
DepthNotes ==
    {MakeNote("u1", [NoProperties EXCEPT !["depth"] = d], tags, children) :
        d \in DepthValues,
        tags \in TagLists({"incremental"} \cup DepthTags),
        children \in ChildrenLists}

\* property values for the property lookup of getFieldContent
PropertyNotes ==
    {MakeNote("u1", [NoProperties EXCEPT !["hint"] = h, !["direction"] = d, !["depth"] = dp],
              <<>>, OneChild) :
        h \in HintValues, d \in DirectionValues, dp \in DepthValues}

\* direction, tags, model and field declarations for getClozedContentHTML
ClozedNotes ==
    {MakeNote("u1", [NoProperties EXCEPT !["direction"] = d, !["anki-model"] = m,
                  !["anki-field-Front"] = f, !["anki-field-Back"] = b,
                  !["hint"] = h],
              tags, children) :
        d \in DirectionValues \ {Bool(FALSE)}, m \in ModelValues,
        f \in FrontMappings \ {Str("children")},
        b \in BackMappings, h \in {Undefined, Str("x")},
        tags \in {<<>>, <<"forward">>, <<"reversed">>, <<"bidirectional">>,
                  <<"incremental">>},
        children \in {<<>>, OneChild}}

NoteInputs == DirectionNotes \cup DepthNotes \cup PropertyNotes \cup ClozedNotes

Mappings == {"content", "children", "hint", "direction", "depth", "nosuch"}

\* The uuid of a child block: as its content, it is told by its path.
RECURSIVE PathToString(_)
PathToString(path) ==
    IF Len(path) = 0 THEN ""
    ELSE PathToString(SubSeq(path, 1, Len(path) - 1)) \o "." \o NumToString(path[Len(path)])
ChildUuid(child) == "c" \o PathToString(child.content)

\* getChildrenUUID: each child's uuid, followed by those of its descendants.
RECURSIVE getChildrenUUID(_)
getChildrenUUID(children) ==
    IF Len(children) = 0 THEN <<>>
    ELSE LET child == children[1]
         IN <<ChildUuid(child)>>
                \o (IF Len(child.children) > 0 THEN getChildrenUUID(child.children)
                    ELSE <<>>)
                \o getChildrenUUID(SubSeq(children, 2, Len(children)))

getBlockDependencies(n) ==
    LET uuids == <<n.uuid>> \o getChildrenUUID(n.children)
    IN [i \in 1..Len(uuids) |-> [type |-> "Block", value |-> uuids[i]]]

\* The fields of this (uuid, content, properties, tags, children) after a
\* method has run: the methods read them and assign to none of them, nor to
\* a field of a child; a variant whose renderer consumes the list it walks.
ThisAfter_ConsumesChildren(n, op) ==
    IF op \in {"getChildrenContent", "getClozedContentHTML"}
    THEN [n EXCEPT !.children = <<>>]
    ELSE n

ThisAfter(n, op) == n

InitNote ==
    /\ note \in NoteInputs
    /\ call = [op |-> "none"]
    /\ mt = Idle
    /\ ex = Idle
    /\ ed = Idle

CallGetCardDirection ==
    /\ call' = [op |-> "getCardDirection", ret |-> getCardDirection(note)]
    /\ note' = ThisAfter(note, "getCardDirection")
    /\ UNCHANGED <<tagVars, extractVars, editorVars>>

CallGetChildrenMaxDepth ==
    /\ call' = [op |-> "getChildrenMaxDepth", ret |-> getChildrenMaxDepth(note)]
    /\ note' = ThisAfter(note, "getChildrenMaxDepth")
    /\ UNCHANGED <<tagVars, extractVars, editorVars>>

CallGetFieldContent ==
    \E m \in Mappings :
        /\ call' = [op |-> "getFieldContent", arg |-> m, ret |-> getFieldContent(note, m)]
        /\ note' = ThisAfter(note, "getFieldContent")
        /\ UNCHANGED <<tagVars, extractVars, editorVars>>

CallGetChildrenContent ==
    /\ call' = [op |-> "getChildrenContent", ret |-> getChildrenContent(note)]
    /\ note' = ThisAfter(note, "getChildrenContent")
    /\ UNCHANGED <<tagVars, extractVars, editorVars>>

CallGetClozedContentHTML ==
    /\ call' = [op |-> "getClozedContentHTML", ret |-> getClozedContentHTML(note)]
    /\ note' = ThisAfter(note, "getClozedContentHTML")
    /\ UNCHANGED <<tagVars, extractVars, editorVars>>

CallGetBlockDependencies ==
    /\ call' = [op |-> "getBlockDependencies", ret |-> getBlockDependencies(note)]
    /\ note' = ThisAfter(note, "getBlockDependencies")
    /\ UNCHANGED <<tagVars, extractVars, editorVars>>

NextNote ==
    \/ CallGetBlockDependencies
    \/ CallGetCardDirection
    \/ CallGetChildrenMaxDepth
    \/ CallGetFieldContent
    \/ CallGetChildrenContent
    \/ CallGetClozedContentHTML

SpecNote == InitNote /\ [][NextNote]_vars

-----------------------------------------------------------------------------
(* NoteUtils.matchTagNamesWithTagIds: one run, one step per awaited getPage *)

Null == [t |-> "null"]
Page(id) == [t |-> "page", id |-> id]

\* tagPage && tagPage.id && tagIdsSet.has(tagPage.id), with a first-id-only
\* membership test
MatchesTag_FirstIdOnly(tagPage, tagIds) ==
    /\ tagPage # Null
    /\ tagPage.id # 0
    /\ Len(tagIds) > 0 /\ tagIds[1] = tagPage.id

\* tagPage && tagPage.id && tagIdsSet.has(tagPage.id)
MatchesTag(tagPage, tagIds) ==
    /\ tagPage # Null
    /\ tagPage.id # 0
    /\ tagPage.id \in Range(tagIds)

\* The whole loop over a graph whose getPage never fails.
RECURSIVE matchTagNamesWithTagIds(_, _, _)
matchTagNamesWithTagIds(pages, tagIds, tagNames) ==
    IF Len(tagNames) = 0 THEN <<>>
    ELSE LET tagName == tagNames[Len(tagNames)]
             before == matchTagNamesWithTagIds(pages, tagIds,
                                               SubSeq(tagNames, 1, Len(tagNames) - 1))
         IN IF MatchesTag(pages[tagName], tagIds) THEN Append(before, tagName)
            ELSE before

TagPageNames == {"forward", "reversed", "depth-1"}
PageIds == 1..MaxPageId

\* The pages of a graph: a name has no page or a page of its own id (the
\* host numbers its entities from 1).
PageTables ==
    {pages \in [TagPageNames -> {Null} \cup {Page(id) : id \in PageIds}] :
        \A a, b \in TagPageNames : (a # b /\ pages[a] # Null) => pages[a] # pages[b]}

\* Sequences over S of at most n elements; those without repetition.
SeqsUpTo(S, n) == UNION {[1..k -> S] : k \in 0..n}
DistinctSeqsUpTo(S, n) ==
    {q \in SeqsUpTo(S, n) : \A i, j \in 1..Len(q) : i # j => q[i] # q[j]}

InitTags ==
    /\ \E pages \in PageTables,
          tagIds \in DistinctSeqsUpTo(PageIds \cup {MaxPageId + 1}, MaxTagIds),
          tagNames \in SeqsUpTo(TagPageNames, MaxTagNames) :
          mt = [pages |-> pages, tagIds |-> tagIds, tagNames |-> tagNames,
                i |-> 1, result |-> <<>>,
                status |-> IF Len(tagNames) = 0 THEN "resolved" ELSE "awaitGetPage"]
    /\ note = Idle
    /\ call = Idle
    /\ ex = Idle
    /\ ed = Idle

\* await getPage(tagName) resolves: the test, the push, and either the next
\* iteration's getPage or the return.
GetPageResolves ==
    /\ mt # Idle
    /\ mt.status = "awaitGetPage"
    /\ LET tagName == mt.tagNames[mt.i]
           tagPage == mt.pages[tagName]
       IN mt' = [mt EXCEPT
                    !.result = IF MatchesTag(tagPage, mt.tagIds)
                               THEN Append(@, tagName) ELSE @,
                    !.i = @ + 1,
                    !.status = IF mt.i = Len(mt.tagNames)
                               THEN "resolved" ELSE "awaitGetPage"]
    /\ UNCHANGED <<noteVars, extractVars, editorVars>>

\* await getPage(tagName) rejects: nothing catches it, the call rejects.
GetPageRejects ==
    /\ mt # Idle
    /\ mt.status = "awaitGetPage"
    /\ mt' = [mt EXCEPT !.status = "rejected"]
    /\ UNCHANGED <<noteVars, extractVars, editorVars>>

NextTags == GetPageResolves \/ GetPageRejects

SpecTags == InitTags /\ [][NextTags]_vars

-----------------------------------------------------------------------------
(* MultilineCardNote.getNotesFromLogseqBlocks: one run over a graph snapshot, *)
(* one step per settled await                                                *)

\* The page of every candidate name of getRelevantTags; its id is the
\* candidate's position.
ExtractPages ==
    [name \in Range(RelevantTagNames) |->
        Page(CHOOSE i \in 1..Len(RelevantTagNames) : RelevantTagNames[i] = name)]

\* The ids of the pages of some names, and the id of a page that is no
\* candidate (card, flashcard, card-group, ...).
RefsTo(names) == [i \in 1..Len(names) |-> ExtractPages[names[i]].id]
UnrelatedPageId == Len(RelevantTagNames) + 1

\* getRelevantTags(tagIds) when every getPage resolves
getRelevantTags(tagIds) ==
    matchTagNamesWithTagIds(ExtractPages, tagIds, RelevantTagNames)

BlockUuid(id) == "b" \o NumToString(id)

\* What a block refers to.
RefChoices ==
    {<<UnrelatedPageId>> \o RefsTo(names) :
        names \in {<<>>, <<"forward">>, <<"reversed">>, <<"bidirectional">>,
                   <<"incremental">>, <<"depth-1">>, <<"depth-0">>}}
ParentRefChoices ==
    {<<UnrelatedPageId>> \o RefsTo(names) :
        names \in {<<>>, <<"reversed">>, <<"depth-0">>, <<"forward", "depth-2">>}}

BlockProfile(hasPage, refs, direction, children) ==
    [hasPage |-> hasPage, refs |-> refs, direction |-> direction, children |-> children]

PlainBlock == BlockProfile(TRUE, <<UnrelatedPageId>>, Undefined, OneChild)

BlockIds == [i \in 1..(1 + MaxSiblings) |-> i]
Siblings == 2..(1 + MaxSiblings)
SiblingDiscoveries == [Siblings -> {"none", "card", "group"}]

\* A snapshot: block 1 with the given profile and discovery, the siblings
\* plain; each query returns its blocks in the order of their ids.
Graph(profile, discovery, siblings, parentRefs, other) ==
    LET via(i) == IF i = 1 THEN discovery ELSE siblings[i] IN
    [profile |-> [i \in 1..(1 + MaxSiblings) |-> IF i = 1 THEN profile ELSE PlainBlock],
     card |-> SelectSeq(BlockIds, LAMBDA i : via(i) \in {"card", "card+group"}),
     flash |-> SelectSeq(BlockIds, LAMBDA i : via(i) = "flash"),
     group |-> SelectSeq(BlockIds, LAMBDA i : via(i) \in {"group", "card+group"}),
     parentRefs |-> parentRefs,
     other |-> other]

\* Block 1 found by the card query: every direction, reference and children
\* count, with and without a note of another extractor for it.
FilterGraphs ==
    {Graph(BlockProfile(TRUE, refs, d, children), "card", sib,
           <<UnrelatedPageId>> \o RefsTo(<<"reversed">>), other) :
        refs \in RefChoices, d \in {Undefined, Str("->"), Bool(FALSE)},
        children \in {<<>>, OneChild}, sib \in SiblingDiscoveries,
        other \in {{}, {BlockUuid(1)}}}

\* Block 1 a child of a card-group block: its references x its parent's.
GroupGraphs ==
    {Graph(BlockProfile(TRUE, refs, Undefined, OneChild), discovery, sib,
           parentRefs, {}) :
        refs \in RefChoices, discovery \in {"group", "card+group"},
        sib \in SiblingDiscoveries, parentRefs \in ParentRefChoices}

\* Block 1 found by the flashcard query, with and without a page.
FlashcardGraphs ==
    {Graph(BlockProfile(hasPage, <<UnrelatedPageId>>, Undefined, <<>>), "flash", sib,
           <<UnrelatedPageId>>, {BlockUuid(1)}) :
        hasPage \in BOOLEAN, sib \in SiblingDiscoveries}

Graphs == FilterGraphs \cup GroupGraphs \cup FlashcardGraphs

\* One element of a query result (block[0]), as the query returned it;
\* parentBlock tells what getBlock(parent) has returned for it.
Entry(id, via) ==
    [id |-> id, uuid |-> BlockUuid(id), via |-> via, parentBlock |-> "unfetched",
     annotated |-> FALSE, tagsFromParentCardGroup |-> <<>>]
Entries(ids, via) == [i \in 1..Len(ids) |-> Entry(ids[i], via)]

\* Note.removeUnwantedNotes: the null entries are dropped.
removeUnwantedNotes(notes) == SelectSeq(notes, LAMBDA n : n # Null)

\* The predicate of the final _.filter.
Retain(n, otherNotes) ==
    \/ Truthy(Prop(n, "direction"))
    \/ Includes_tag(n.tags, "forward")
    \/ Includes_tag(n.tags, "bidirectional")
    \/ Includes_tag(n.tags, "reversed")
    \/ Len(n.children) > 0
    \/ ~(\E uuid \in otherNotes : uuid = n.uuid)

InitExtract ==
    /\ \E g \in Graphs :
          ex = [graph |-> g, pc |-> "query1",
                card |-> <<>>, flash |-> <<>>, group |-> <<>>, ann |-> <<>>,
                blocks |-> <<>>, con |-> <<>>, read |-> <<>>, notes |-> <<>>,
                order |-> <<>>,
                collected |-> <<>>, result |-> <<>>]
    /\ note = Idle
    /\ call = Idle
    /\ mt = Idle
    /\ ed = Idle

\* The card query resolves; the flashcard query is issued.
Query1Resolves ==
    /\ ex # Idle /\ ex.pc = "query1"
    /\ ex' = [ex EXCEPT !.card = Entries(ex.graph.card, "card"), !.pc = "query2"]
    /\ UNCHANGED <<noteVars, tagVars, editorVars>>

\* The flashcard query resolves; the card-group query is issued.
Query2Resolves ==
    /\ ex # Idle /\ ex.pc = "query2"
    /\ ex' = [ex EXCEPT !.flash = Entries(ex.graph.flash, "flash"), !.pc = "query3"]
    /\ UNCHANGED <<noteVars, tagVars, editorVars>>

\* The card-group query resolves; the map starts one annotation per block,
\* each awaiting getBlock(parent).
Query3Resolves ==
    /\ ex # Idle /\ ex.pc = "query3"
    /\ ex' = [ex EXCEPT !.group = Entries(ex.graph.group, "group"),
                        !.ann = [i \in 1..Len(ex.graph.group) |-> "getBlock"],
                        !.pc = "annotate"]
    /\ UNCHANGED <<noteVars, tagVars, editorVars>>

\* The queries the extraction has issued so far and those that have
\* completed: each datascriptQueryBlocks is awaited before the next statement
\* runs (defined while the extraction has not rejected).
QueriesIssued ==
    CASE ex.pc = "query1" -> {"card"}
      [] ex.pc = "query2" -> {"card", "flashcard"}
      [] OTHER -> {"card", "flashcard", "card-group"}
QueriesCompleted ==
    CASE ex.pc = "query1" -> {}
      [] ex.pc = "query2" -> {"card"}
      [] ex.pc = "query3" -> {"card", "flashcard"}
      [] OTHER -> {"card", "flashcard", "card-group"}

\* A query rejects: the await throws and the extraction rejects.
QueryRejects ==
    /\ ex # Idle /\ ex.pc \in {"query1", "query2", "query3"}
    /\ ex' = [ex EXCEPT !.pc = "rejected"]
    /\ UNCHANGED <<noteVars, tagVars, editorVars>>

\* getBlock(parent) resolves: with the parent, and getRelevantTags is
\* awaited, or with null, and tagsFromParentCardGroup is set to [].
AnnGetBlockResolves ==
    /\ ex # Idle /\ ex.pc = "annotate"
    /\ \E i \in 1..Len(ex.ann), found \in BOOLEAN :
          /\ ex.ann[i] = "getBlock"
          /\ ex' = IF found
                   THEN [ex EXCEPT !.ann[i] = "getTags",
                                   !.group[i].parentBlock = "found"]
                   ELSE [ex EXCEPT !.ann[i] = "done",
                                   !.group[i].parentBlock = "null",
                                   !.group[i].annotated = TRUE,
                                   !.group[i].tagsFromParentCardGroup = <<>>]
    /\ UNCHANGED <<noteVars, tagVars, editorVars>>

\* getRelevantTags of the parent's refs resolves: tagsFromParentCardGroup is
\* written.
AnnGetTagsResolves ==
    /\ ex # Idle /\ ex.pc = "annotate"
    /\ \E i \in 1..Len(ex.ann) :
          /\ ex.ann[i] = "getTags"
          /\ ex' = [ex EXCEPT !.ann[i] = "done",
                              !.group[i].annotated = TRUE,
                              !.group[i].tagsFromParentCardGroup =
                                  getRelevantTags(ex.graph.parentRefs)]
    /\ UNCHANGED <<noteVars, tagVars, editorVars>>

\* An annotation's await rejects: Promise.all rejects and so does the
\* extraction.
AnnotationRejects ==
    /\ ex # Idle /\ ex.pc = "annotate"
    /\ \E i \in 1..Len(ex.ann) :
          /\ ex.ann[i] \in {"getBlock", "getTags"}
          /\ ex' = [ex EXCEPT !.ann[i] = "rejected", !.pc = "rejected"]
    /\ UNCHANGED <<noteVars, tagVars, editorVars>>

\* Every annotation is done: blocks is built and the map starts one
\* construction per block, each running to its first await (getPage when the
\* block has a page, else getBlock, tagsFromParentCardGroup being read
\* before it).
StartConstruction_Early ==
    /\ ex # Idle /\ ex.pc = "annotate"
    /\ LET blocks == ex.card \o ex.flash \o ex.group
           hasPage(i) == ex.graph.profile[blocks[i].id].hasPage
       IN ex' = [ex EXCEPT
                    !.blocks = blocks,
                    !.con = [i \in 1..Len(blocks) |->
                                IF hasPage(i) THEN "getPage" ELSE "getBlock"],
                    !.read = [i \in 1..Len(blocks) |->
                                IF hasPage(i) THEN [done |-> FALSE, tags |-> <<>>]
                                ELSE [done |-> TRUE,
                                      tags |-> blocks[i].tagsFromParentCardGroup]],
                    !.notes = [i \in 1..Len(blocks) |-> Null],
                    !.pc = "construct"]
    /\ UNCHANGED <<noteVars, tagVars, editorVars>>

StartConstruction ==
    /\ ex # Idle /\ ex.pc = "annotate"
    /\ \A i \in 1..Len(ex.ann) : ex.ann[i] = "done"
    /\ LET blocks == ex.card \o ex.flash \o ex.group
           hasPage(i) == ex.graph.profile[blocks[i].id].hasPage
       IN ex' = [ex EXCEPT
                    !.blocks = blocks,
                    !.con = [i \in 1..Len(blocks) |->
                                IF hasPage(i) THEN "getPage" ELSE "getBlock"],
                    !.read = [i \in 1..Len(blocks) |->
                                IF hasPage(i) THEN [done |-> FALSE, tags |-> <<>>]
                                ELSE [done |-> TRUE,
                                      tags |-> blocks[i].tagsFromParentCardGroup]],
                    !.notes = [i \in 1..Len(blocks) |-> Null],
                    !.pc = "construct"]
    /\ UNCHANGED <<noteVars, tagVars, editorVars>>

\* getPage(blockEntity.page.id) resolves: tagsFromParentCardGroup is read and
\* getBlock(uuid) awaited.
ConGetPageResolves ==
    /\ ex # Idle /\ ex.pc = "construct"
    /\ \E i \in 1..Len(ex.con) :
          /\ ex.con[i] = "getPage"
          /\ ex' = [ex EXCEPT
                       !.con[i] = "getBlock",
                       !.read[i] = [done |-> TRUE,
                                    tags |-> ex.blocks[i].tagsFromParentCardGroup]]
    /\ UNCHANGED <<noteVars, tagVars, editorVars>>

\* getBlock(uuid) resolves: with the block, and getRelevantTags is awaited,
\* or with null, and the construction returns null.
ConGetBlockResolves ==
    /\ ex # Idle /\ ex.pc = "construct"
    /\ \E i \in 1..Len(ex.con), found \in BOOLEAN :
          /\ ex.con[i] = "getBlock"
          /\ ex' = [ex EXCEPT !.con[i] = IF found THEN "getTags" ELSE "null",
                              !.order = IF found THEN @ ELSE Append(@, i)]
    /\ UNCHANGED <<noteVars, tagVars, editorVars>>

\* The tags of the new note: the block's own, or else its parent's.
NoteTags_Merged(tags, tagsFromParentCardGroup) == tags \o tagsFromParentCardGroup

NoteTags(tags, tagsFromParentCardGroup) ==
    IF Len(tags) > 0 THEN tags ELSE tagsFromParentCardGroup

\* getRelevantTags of the block's refs resolves: the note is constructed.
ConGetTagsResolves ==
    /\ ex # Idle /\ ex.pc = "construct"
    /\ \E i \in 1..Len(ex.con) :
          /\ ex.con[i] = "getTags"
          /\ LET fullBlock == ex.graph.profile[ex.blocks[i].id]
                 tags == getRelevantTags(fullBlock.refs)
             IN ex' = [ex EXCEPT
                          !.con[i] = "note",
                          !.order = Append(@, i),
                          !.notes[i] =
                              MakeNote(ex.blocks[i].uuid,
                                       [NoProperties EXCEPT
                                           !["direction"] = fullBlock.direction],
                                       NoteTags(tags, ex.read[i].tags),
                                       fullBlock.children)]
    /\ UNCHANGED <<noteVars, tagVars, editorVars>>

\* A construction's await (getPage, getBlock, getRelevantTags) rejects:
\* nothing catches it, Promise.all rejects and so does the extraction. The
\* other constructions' results are discarded.
ConstructionRejects ==
    /\ ex # Idle /\ ex.pc = "construct"
    /\ \E i \in 1..Len(ex.con) :
          /\ ex.con[i] \in {"getPage", "getBlock", "getTags"}
          /\ ex' = [ex EXCEPT !.con[i] = "rejected", !.pc = "rejected"]
    /\ UNCHANGED <<noteVars, tagVars, editorVars>>

\* The value of Promise.all(promises): the promises' values in the order of
\* the promises, whatever the order in which they were fulfilled; a variant
\* that takes them in the order of fulfilment.
PromiseAll_CompletionOrder(values, order) ==
    [k \in 1..Len(order) |-> values[order[k]]]

PromiseAll(values, order) == values

\* Every construction has returned: Promise.all resolves with the notes in
\* the order of blocks, and Note.removeUnwantedNotes is awaited.
Collect ==
    /\ ex # Idle /\ ex.pc = "construct"
    /\ \A i \in 1..Len(ex.con) : ex.con[i] \in {"note", "null"}
    /\ ex' = [ex EXCEPT !.notes = PromiseAll(ex.notes, ex.order),
                        !.pc = "removeUnwanted"]
    /\ UNCHANGED <<noteVars, tagVars, editorVars>>

\* removeUnwantedNotes resolves; the final filter runs and the extraction
\* returns.
RemoveUnwantedResolves ==
    /\ ex # Idle /\ ex.pc = "removeUnwanted"
    /\ LET collected == removeUnwantedNotes(ex.notes) IN
       ex' = [ex EXCEPT
                 !.collected = collected,
                 !.result = SelectSeq(collected,
                                      LAMBDA n : Retain(n, ex.graph.other)),
                 !.pc = "resolved"]
    /\ UNCHANGED <<noteVars, tagVars, editorVars>>

NextExtract ==
    \/ Query1Resolves
    \/ Query2Resolves
    \/ Query3Resolves
    \/ QueryRejects
    \/ AnnGetBlockResolves
    \/ AnnGetTagsResolves
    \/ AnnotationRejects
    \/ StartConstruction
    \/ ConGetPageResolves
    \/ ConGetBlockResolves
    \/ ConGetTagsResolves
    \/ ConstructionRejects
    \/ Collect
    \/ RemoveUnwantedResolves

SpecExtract == InitExtract /\ [][NextExtract]_vars

-----------------------------------------------------------------------------
(* The occlusion editor: OcclusionEditor and OcclusionEditorComponent, from  *)
(* the first render on. An occlusion on the canvas is a record of its        *)
(* identity (which stands for its geometry) and the text of its cloze id.    *)

\* createOcclusionRectEl(..., cId): the text of the group is `${cId}`.
createOcclusionRectEl(id, cId) == [id |-> id, text |-> NumToString(cId)]

\* The i-th element of occlusionElements and the n-th occlusion the user adds.
PassedId(i) == "p" \o NumToString(i)
AddedId(n) == "a" \o NumToString(n)

\* occlusionElements: up to MaxPassed elements with a cloze id each.
OcclusionElementLists ==
    UNION {[1..k -> [cId : 1..MaxCId]] : k \in 0..MaxPassed}
PassedElements(els) == [i \in 1..Len(els) |-> [id |-> PassedId(i), cId |-> els[i].cId]]

\* occlusionConfig || {}: hideAllTestOne is absent, false or true.
OcclusionConfigs == {[hideAllTestOne |-> v] : v \in {Undefined, Bool(FALSE), Bool(TRUE)}}

Pending == [state |-> "pending"]
Resolved(value) == [state |-> "resolved", value |-> value]

\* fabricRef.current.getObjects().map(...): one element per object on the
\* canvas, with cId: parseInt(obj._objects[1].text).
NewOcclusionElements(canvas) ==
    [i \in 1..Len(canvas) |-> [id |-> canvas[i].id, cId |-> ParseInt(canvas[i].text)]]

OcclusionData(config, canvas) ==
    [t |-> "data", config |-> config, elements |-> NewOcclusionElements(canvas)]

\* The component is mounted: the canvas is created and empty, and initFabric
\* awaits logseq.App.getCurrentGraph(). The keydown listener is registered
\* once, with the handleConfirm of this first render, which holds the
\* configuration state of the first render (boundConfig).
InitEditor ==
    /\ \E els \in OcclusionElementLists, config \in OcclusionConfigs :
          ed = [occlusionElements |-> PassedElements(els),
                occlusionConfigState |-> config,
                boundConfig |-> config,
                img |-> "awaitGraph",
                canvas |-> <<>>,
                active |-> "none",
                added |-> 0,
                deleted |-> {},
                open |-> TRUE,
                closedBy |-> "none",
                promise |-> Pending]
    /\ note = Idle
    /\ call = Idle
    /\ mt = Idle
    /\ ex = Idle

\* getCurrentGraph resolves: imgEl.src and imgEl.onload are set.
GetCurrentGraphResolves ==
    /\ ed # Idle /\ ed.open
    /\ ed.img = "awaitGraph"
    /\ ed' = [ed EXCEPT !.img = "loading"]
    /\ UNCHANGED <<noteVars, tagVars, extractVars>>

\* imgEl.onload: the background is set and one occlusion is added to the
\* canvas for each element of occlusionElements.
ImageOnload ==
    /\ ed # Idle /\ ed.open
    /\ ed.img = "loading"
    /\ ed' = [ed EXCEPT
                 !.img = "loaded",
                 !.canvas = @ \o [i \in 1..Len(ed.occlusionElements) |->
                                     createOcclusionRectEl(ed.occlusionElements[i].id,
                                                           ed.occlusionElements[i].cId)]]
    /\ UNCHANGED <<noteVars, tagVars, extractVars>>

\* The user selects an occlusion on the canvas (selection:created, updated).
SelectOcclusion ==
    /\ ed # Idle /\ ed.open
    /\ \E i \in 1..Len(ed.canvas) :
          /\ ed.canvas[i].id # ed.active
          /\ ed' = [ed EXCEPT !.active = ed.canvas[i].id]
    /\ UNCHANGED <<noteVars, tagVars, extractVars>>

\* addOcclusion, by the Add Occlusion button or the Insert key: a new
\* occlusion with the cloze id 1 is added and made the active object.
addOcclusion ==
    /\ ed # Idle /\ ed.open
    /\ ed.added < MaxAdded
    /\ \E via \in {"button", "Insert"} :
          ed' = [ed EXCEPT
                    !.added = @ + 1,
                    !.canvas = Append(@, createOcclusionRectEl(AddedId(ed.added + 1), 1)),
                    !.active = AddedId(ed.added + 1)]
    /\ UNCHANGED <<noteVars, tagVars, extractVars>>

\* deleteOcclusion, by the Delete Occlusion button (disabled without a
\* selection) or the Delete key (ignored without an active object): the
\* active object is removed from the canvas, which clears the selection.
deleteOcclusion ==
    /\ ed # Idle /\ ed.open
    /\ ed.active # "none"
    /\ \E via \in {"button", "Delete"} :
          ed' = [ed EXCEPT
                    !.canvas = SelectSeq(@, LAMBDA o : o.id # ed.active),
                    !.deleted = @ \cup {ed.active},
                    !.active = "none"]
    /\ UNCHANGED <<noteVars, tagVars, extractVars>>

\* onCIdChange, by the selector or a digit key with an active object: the
\* text of the active object becomes the chosen value.
onCIdChange ==
    /\ ed # Idle /\ ed.open
    /\ ed.active # "none"
    /\ \E c \in 1..MaxCId :
          /\ \E i \in 1..Len(ed.canvas) :
                ed.canvas[i].id = ed.active /\ ed.canvas[i].text # NumToString(c)
          /\ ed' = [ed EXCEPT
                       !.canvas = [i \in 1..Len(@) |->
                                      IF @[i].id = ed.active
                                      THEN [@[i] EXCEPT !.text = NumToString(c)]
                                      ELSE @[i]]]
    /\ UNCHANGED <<noteVars, tagVars, extractVars>>

\* The Hide All, Test One checkbox changes: setOcclusionConfigState.
CheckboxChange ==
    /\ ed # Idle /\ ed.open
    /\ ed' = [ed EXCEPT
                 !.occlusionConfigState =
                     [@ EXCEPT !.hideAllTestOne = Bool(~Truthy(@))]]
    /\ UNCHANGED <<noteVars, tagVars, extractVars>>

\* handleConfirm of a render whose configuration state is config:
\* resolve({config, elements}) and onClose().
handleConfirm(config, by) ==
    ed' = [ed EXCEPT
              !.promise = Resolved(OcclusionData(config, ed.canvas)),
              !.open = FALSE,
              !.closedBy = by]

\* The Confirm button: handleConfirm of the current render.
ConfirmButton ==
    /\ ed # Idle /\ ed.open
    /\ handleConfirm(ed.occlusionConfigState, "Confirm")
    /\ UNCHANGED <<noteVars, tagVars, extractVars>>

\* The Cancel button: handleCancel, resolve(false) and onClose().
CancelButton ==
    /\ ed # Idle /\ ed.open
    /\ ed' = [ed EXCEPT !.promise = Resolved(Bool(FALSE)),
                        !.open = FALSE,
                        !.closedBy = "Cancel"]
    /\ UNCHANGED <<noteVars, tagVars, extractVars>>

\* onKeydown, Enter: handleConfirm of the render that registered the
\* listener.
EnterKey ==
    /\ ed # Idle /\ ed.open
    /\ handleConfirm(ed.boundConfig, "Enter")
    /\ UNCHANGED <<noteVars, tagVars, extractVars>>

\* onKeydown, Escape: with an active object the selection is discarded;
\* without one onClose() is called, and nothing else.
EscapeKey ==
    /\ ed # Idle /\ ed.open
    /\ ed' = IF ed.active # "none"
             THEN [ed EXCEPT !.active = "none"]
             ELSE [ed EXCEPT !.open = FALSE, !.closedBy = "Escape"]
    /\ UNCHANGED <<noteVars, tagVars, extractVars>>

NextEditor ==
    \/ GetCurrentGraphResolves
    \/ ImageOnload
    \/ SelectOcclusion
    \/ addOcclusion
    \/ deleteOcclusion
    \/ onCIdChange
    \/ CheckboxChange
    \/ ConfirmButton
    \/ CancelButton
    \/ EnterKey
    \/ EscapeKey

SpecEditor == InitEditor /\ [][NextEditor]_vars

-----------------------------------------------------------------------------
(* Properties of the note methods (SpecNote) *)

RecognisedDirections == {Str("->"), Str("<-"), Str("<->")}

\* C3: when the direction property is "->", "<-" or "<->", getCardDirection
\* returns that value, whatever the tags are.
C3_DirectionPropertyWins ==
    (call.op = "getCardDirection" /\ Prop(note, "direction") \in RecognisedDirections)
        => call.ret = Prop(note, "direction")

\* The property says "->" and the tags say bidirectional; the call returned.
C3_Witness ==
    /\ call.op = "getCardDirection"
    /\ Prop(note, "direction") = Str("->")
    /\ {"reversed", "forward", "bidirectional"} \subseteq Range(note.tags)
    /\ call.ret = Str("->")

\* C4: without a recognised direction property, getCardDirection returns
\* "<->" for forward + reversed or for bidirectional, else "<-" for
\* reversed, else "->".
C4_DirectionFromTags ==
    (call.op = "getCardDirection" /\ Prop(note, "direction") \notin RecognisedDirections)
        => LET T == Range(note.tags) IN
           call.ret =
               IF {"forward", "reversed"} \subseteq T \/ "bidirectional" \in T
               THEN Str("<->")
               ELSE IF "reversed" \in T THEN Str("<-")
               ELSE Str("->")

\* An unrecognised direction value and the tags reversed + bidirectional.
C4_Witness ==
    /\ call.op = "getCardDirection"
    /\ Prop(note, "direction") = Str("both")
    /\ Range(note.tags) = {"reversed", "bidirectional", "incremental"}
    /\ call.ret = Str("<->")

\* The content of every block rendered into an HTML fragment.
Contents(html) == {html[i].content : i \in {j \in 1..Len(html) : html[j].tok = "html"}}

\* The contents (paths) of every block of a forest.
RECURSIVE Descendants(_)
Descendants(children) ==
    UNION {{children[i].content} \cup Descendants(children[i].children) :
              i \in 1..Len(children)}

\* C5: with a resolved maxDepth N, getChildrenContent emits nothing of a
\* block deeper than level N (the direct children being level 1), so nothing
\* of any descendant more than N levels below the direct children; with
\* N = 0 the result is the empty string.
C5_DepthCap ==
    call.op = "getChildrenContent" =>
        LET N == getChildrenMaxDepth(note) IN
        N.t = "number" =>
            /\ \A c \in Contents(call.ret) : Len(c) <= N.n
            /\ \A c \in Contents(call.ret) : Len(c) - 1 <= N.n
            /\ N.n = 0 => call.ret = <<>>

\* maxDepth 1 over three nested levels: level 1 is rendered, the rest is not.
C5_Witness ==
    /\ call.op = "getChildrenContent"
    /\ getChildrenMaxDepth(note) = Num(1)
    /\ \E c \in Descendants(note.children) : Len(c) = 3
    /\ Contents(call.ret) # {}

IsDepthName(tag) == \E i \in 5..14 : RelevantTagNames[i] = tag
DepthOfName(tag) == (CHOOSE i \in 5..14 : RelevantTagNames[i] = tag) - 5

\* C6: getChildrenMaxDepth returns the N of the last depth-N tag when there is
\* one, else a positive-integer depth property, and 9999 with neither a
\* depth property nor a depth tag.
C6_MaxDepth ==
    call.op = "getChildrenMaxDepth" =>
        LET depthIdx == {i \in 1..Len(note.tags) : IsDepthName(note.tags[i])}
            depth == Prop(note, "depth")
        IN IF depthIdx # {}
           THEN LET last == CHOOSE i \in depthIdx : \A j \in depthIdx : j <= i
                IN call.ret = Num(DepthOfName(note.tags[last]))
           ELSE /\ (depth.t = "number" /\ depth.n > 0) => call.ret = depth
                /\ depth = Undefined => call.ret = Num(9999)

\* Two depth tags and a depth property: the last tag wins.
C6_Witness ==
    /\ call.op = "getChildrenMaxDepth"
    /\ Prop(note, "depth") = Num(3)
    /\ {"depth-1", "depth-2"} \subseteq Range(note.tags)
    /\ call.ret = Num(2)

NoFieldDeclared(n) ==
    Prop(n, "anki-field-Front") = Undefined /\ Prop(n, "anki-field-Back") = Undefined

\* The model names under test that contain "cloze" in any case.
ClozeNames == {"Cloze", "My CLOZE deck"}

C8_MainContentByDirection ==
    call.op = "getClozedContentHTML" =>
        call.ret.mainContent =
            IF getCardDirection(note) \in {Str("<-"), Str("<->")}
            THEN getChildrenContent(note)
            ELSE ContentHTML(note)

\* Bidirectional by property, a cloze model, a declared field.
C8_Witness ==
    /\ call.op = "getClozedContentHTML"
    /\ Prop(note, "direction") = Str("<->")
    /\ Prop(note, "anki-model") = Str("Cloze")
    /\ Prop(note, "anki-field-Front") = Str("content")
    /\ call.ret.mainContent = getChildrenContent(note)
    /\ call.ret.mainContent # ContentHTML(note)

\* C9: for a mapping other than content and children, getFieldContent
\* returns the string form of the property of that name when the note has it
\* (whatever its value), the empty string when it has not, and never throws.
C9_PropertyLookup ==
    (call.op = "getFieldContent" /\ call.arg \notin {"content", "children"}) =>
        /\ ~call.ret.threw
        /\ call.ret.value =
               IF Prop(note, call.arg) = Undefined THEN <<>>
               ELSE Text(toString(Prop(note, call.arg)).value)

\* The blocks of a forest at the levels 1..N, parents before their children
\* and siblings in their order; those among them above level N that have
\* children.
RECURSIVE BlocksWithin(_, _)
BlocksWithin(children, N) ==
    IF Len(children) = 0 THEN <<>>
    ELSE LET c == children[1]
         IN (IF Len(c.content) <= N
             THEN <<c.content>> \o BlocksWithin(c.children, N) ELSE <<>>)
            \o BlocksWithin(SubSeq(children, 2, Len(children)), N)

RECURSIVE ParentsWithin(_, _)
ParentsWithin(children, N) ==
    UNION {(IF Len(children[i].content) < N /\ Len(children[i].children) > 0
            THEN {children[i].content} ELSE {})
               \cup ParentsWithin(children[i].children, N) :
           i \in 1..Len(children)}

\* The positions of a token in an HTML fragment, and the number of elements
\* of a kind that are open after position j.
Positions(html, tok) == {i \in 1..Len(html) : html[i].tok = tok}
OpenAt(html, j, tok) ==
    Cardinality({i \in Positions(html, tok) : i <= j})
        - Cardinality({i \in Positions(html, "/" \o tok) : i <= j})

\* C15: with maxDepth N >= 1, getChildrenContent emits one item per block of
\* the levels 1..N and nothing of a deeper block, parents before children and
\* siblings in their order; one list for the direct children and one per
\* rendered block that has children above level N; and the item of a block
\* of level L lies in L open lists and L open items, so the list of a
\* block's children is inside the block's own item.
C15_NestedLists ==
    (call.op = "getChildrenContent"
        /\ getChildrenMaxDepth(note).t = "number"
        /\ getChildrenMaxDepth(note).n >= 1) =>
        LET N == getChildrenMaxDepth(note).n
            html == call.ret
            items == SelectSeq(html, LAMBDA t : t.tok = "html")
        IN /\ [i \in 1..Len(items) |-> items[i].content] = BlocksWithin(note.children, N)
           /\ Cardinality(Positions(html, "li")) = Len(items)
           /\ Cardinality(Positions(html, "ul"))
                  = 1 + Cardinality(ParentsWithin(note.children, N))
           /\ OpenAt(html, Len(html), "ul") = 0
           /\ OpenAt(html, Len(html), "li") = 0
           /\ \A j \in 1..Len(html) :
                 /\ html[j].tok = "html" =>
                        /\ html[j - 1].tok = "li"
                        /\ OpenAt(html, j, "li") = Len(html[j].content)
                        /\ OpenAt(html, j, "ul") = Len(html[j].content)
                 /\ html[j].tok = "li" => html[j + 1].tok = "html"
                 /\ html[j].tok = "ul" =>
                        OpenAt(html, j, "ul") = OpenAt(html, j, "li") + 1
                 /\ html[j].tok = "/li" =>
                        OpenAt(html, j, "ul") = OpenAt(html, j, "li") + 1

\* A depth-2 tag over three nested levels: the levels 1 and 2 are rendered,
\* the level 3 is not.
C15_Witness ==
    /\ call.op = "getChildrenContent"
    /\ Includes_tag(note.tags, "depth-2")
    /\ getChildrenMaxDepth(note) = Num(2)
    /\ \E c \in Descendants(note.children) : Len(c) = 3
    /\ \E c \in Contents(call.ret) : Len(c) = 2
    /\ \A c \in Contents(call.ret) : Len(c) <= 2

-----------------------------------------------------------------------------
(* Properties of matchTagNamesWithTagIds (SpecTags) *)

\* C10: a resolved matchTagNamesWithTagIds returns, in the order of tagNames
\* and once per occurrence, exactly the names whose page exists with an id
\* among tagIds, whatever the order of tagIds; a name without a page is left
\* out.
C10_MatchedNames ==
    (mt # Idle /\ mt.status = "resolved") =>
        mt.result =
            SelectSeq(mt.tagNames,
                      LAMBDA name : /\ mt.pages[name] # Null
                                    /\ \E k \in 1..Len(mt.tagIds) :
                                          mt.tagIds[k] = mt.pages[name].id)

\* Two ids given in descending order, a name that occurs twice and matches,
\* and a name without a page.
C10_Witness ==
    /\ mt # Idle
    /\ mt.status = "resolved"
    /\ Len(mt.tagIds) = 2 /\ mt.tagIds[1] > mt.tagIds[2]
    /\ mt.pages["forward"] = Null
    /\ mt.tagNames = <<"reversed", "reversed">>
    /\ mt.result = <<"reversed", "reversed">>
    /\ mt.pages["reversed"].id = mt.tagIds[2]

\* C11: a getPage that fails for one candidate name excludes that candidate
\* only: matchTagNamesWithTagIds never fails as a whole, it goes on with the
\* remaining candidates.
C11_LookupFailureIsolated ==
    mt # Idle => mt.status # "rejected"

-----------------------------------------------------------------------------
(* Properties of getNotesFromLogseqBlocks (SpecExtract) *)

\* C1: the failure of one block's construction drops that block's note
\* only: the extraction is not rejected because of it.
C1_FailureIsolated ==
    (ex # Idle /\ \E i \in 1..Len(ex.con) : ex.con[i] = "rejected")
        => ex.pc # "rejected"

\* C2: the final filter retains a note if and only if it has a direction
\* property, or a forward, bidirectional or reversed tag, or a child, or no
\* note of the same uuid in otherNotes.
C2_FilterRetains ==
    (ex # Idle /\ ex.pc = "resolved") =>
        ex.result =
            SelectSeq(ex.collected,
                      LAMBDA n :
                          \/ Prop(n, "direction") # Undefined
                          \/ Range(n.tags) \cap {"forward", "bidirectional", "reversed"} # {}
                          \/ Len(n.children) >= 1
                          \/ n.uuid \notin ex.graph.other)

\* C12: the three discovery queries run concurrently, all three are issued
\* before any of them completes; and the constructions of all the blocks
\* are started before any of them completes.
C12_QueriesConcurrent ==
    (ex # Idle /\ ex.pc # "rejected") =>
        /\ QueriesCompleted # {} => QueriesIssued = {"card", "flashcard", "card-group"}
        /\ (\E i \in 1..Len(ex.con) : ex.con[i] \in {"note", "null"})
              => Len(ex.con) = Len(ex.blocks)

\* C13: the tags of every note the extraction produces are among forward,
\* reversed, bidirectional, incremental and depth-1 .. depth-9; depth-0 is
\* never a tag of a note.
C13_TagVocabulary ==
    ex # Idle =>
        \A i \in 1..Len(ex.notes) :
            ex.notes[i] # Null =>
                Range(ex.notes[i].tags) \subseteq
                    {"forward", "reversed", "bidirectional", "incremental"}
                        \cup {"depth-" \o NumToString(k) : k \in 1..9}

\* The recognised tags of the card-group parent of a block, as getBlock
\* returned the parent (none when it returned null or the block is no child
\* of a card-group block).
ParentTagsOf(id) ==
    IF \E k \in 1..Len(ex.group) : ex.group[k].id = id /\ ex.group[k].parentBlock = "found"
    THEN getRelevantTags(ex.graph.parentRefs)
    ELSE <<>>

\* C16: a note built from a child of a card-group block has the parent's
\* recognised tags exactly when the block has no recognised tag of its own,
\* and the block's own tags only when it has one; a note of a block that is
\* no child of a card-group block (found by the card or flashcard query
\* only) has the block's own tags.
C16_ParentTags ==
    ex # Idle =>
        \A i \in 1..Len(ex.notes) :
            ex.notes[i] # Null =>
                LET id == ex.blocks[i].id
                    own == getRelevantTags(ex.graph.profile[id].refs)
                IN ex.notes[i].tags = IF own = <<>> THEN ParentTagsOf(id) ELSE own

\* C17: tagsFromParentCardGroup of every card-group child is written before
\* any construction starts: while a construction exists every annotation is
\* done, and what a construction has read of a card-group child is what the
\* annotation wrote.
C17_AnnotatedBeforeConstruction ==
    ex # Idle =>
        /\ (Len(ex.con) > 0 \/ ex.pc \in {"construct", "removeUnwanted", "resolved"}) =>
               \A k \in 1..Len(ex.group) : ex.ann[k] = "done" /\ ex.group[k].annotated
        /\ \A i \in 1..Len(ex.read) :
               (ex.read[i].done /\ i > Len(ex.card) + Len(ex.flash)) =>
                   LET k == i - Len(ex.card) - Len(ex.flash)
                   IN /\ ex.group[k].annotated
                      /\ ex.read[i].tags = ex.group[k].tagsFromParentCardGroup

\* Two card-group children: both constructions have read the parent's tags,
\* one of them after its getPage.
C17_Witness ==
    /\ ex # Idle
    /\ ex.pc = "construct"
    /\ Len(ex.group) = 2
    /\ \A i \in 1..Len(ex.read) : ex.read[i].done /\ ex.read[i].tags # <<>>
    /\ \E i \in 1..Len(ex.con) : ex.graph.profile[ex.blocks[i].id].hasPage

\* The blocks in discovery order, as the snapshot gives them, and the note
\* the i-th of them yields.
DiscoveryOrder == ex.graph.card \o ex.graph.flash \o ex.graph.group
ExpectedNote(i) ==
    LET id == DiscoveryOrder[i]
        k == i - Len(ex.graph.card) - Len(ex.graph.flash)
        fullBlock == ex.graph.profile[id]
        own == getRelevantTags(fullBlock.refs)
        parent == IF k >= 1 /\ ex.group[k].parentBlock = "found"
                  THEN getRelevantTags(ex.graph.parentRefs) ELSE <<>>
    IN MakeNote(BlockUuid(id),
                [NoProperties EXCEPT !["direction"] = fullBlock.direction],
                IF own # <<>> THEN own ELSE parent,
                fullBlock.children)
ExpectedNotes ==
    LET idx == SelectSeq([i \in 1..Len(DiscoveryOrder) |-> i],
                         LAMBDA i : ex.con[i] = "note")
    IN [k \in 1..Len(idx) |-> ExpectedNote(idx[k])]

\* C18: the collected notes are those of the blocks in discovery order (card,
\* flashcard, card-group, each in query order) whatever the order in which
\* the constructions completed, so they are the same in every run over the
\* same snapshot in which getBlock finds the same blocks; the final filter
\* keeps the survivors in that order.
C18_DiscoveryOrder ==
    ex # Idle =>
        /\ ex.pc = "removeUnwanted" => removeUnwantedNotes(ex.notes) = ExpectedNotes
        /\ ex.pc = "resolved" =>
               /\ ex.collected = ExpectedNotes
               /\ ex.result = SelectSeq(ExpectedNotes, LAMBDA n : Retain(n, ex.graph.other))

\* Two blocks whose constructions completed in the reverse of the discovery
\* order, both collected and both kept.
C18_Witness ==
    /\ ex # Idle
    /\ ex.pc = "resolved"
    /\ ex.order = <<2, 1>>
    /\ Len(ex.result) = 2
    /\ ex.result[1] # ex.result[2]
    /\ ex.result[1].uuid = BlockUuid(DiscoveryOrder[1])

-----------------------------------------------------------------------------
(* Properties of the occlusion editor (SpecEditor) *)

\* C19: the editor is never closed with the promise pending: closed by the
\* Confirm button or the Enter key the promise is resolved with the
\* occlusion data, closed by the Cancel button or by Escape with no
\* occlusion selected it is resolved with false.
C19_CloseSettles ==
    (ed # Idle /\ ~ed.open) =>
        /\ ed.promise # Pending
        /\ ed.closedBy \in {"Confirm", "Enter"} =>
               ed.promise.state = "resolved" /\ ed.promise.value # Bool(FALSE)
        /\ ed.closedBy \in {"Cancel", "Escape"} => ed.promise = Resolved(Bool(FALSE))

\* C20: the elements returned on confirm are one per occlusion passed in or
\* added by the user and not deleted, whether the image had loaded before
\* the confirm or not.
C20_ReturnedElements ==
    (ed # Idle /\ ed.promise # Pending /\ ed.promise.value # Bool(FALSE)) =>
        LET elements == ed.promise.value.elements
            kept == ({ed.occlusionElements[i].id : i \in 1..Len(ed.occlusionElements)}
                        \cup {AddedId(n) : n \in 1..ed.added}) \ ed.deleted
        IN /\ {elements[i].id : i \in 1..Len(elements)} = kept
           /\ Len(elements) = Cardinality(kept)

\* C21: the config returned on confirm is the state of the Hide All, Test
\* One checkbox at the moment of confirming, after any sequence of changes
\* of the checkbox, by the Confirm button and by the Enter key alike.
C21_ConfigAtConfirm ==
    (ed # Idle /\ ed.closedBy \in {"Confirm", "Enter"}) =>
        /\ ed.promise # Pending
        /\ ed.promise.value.config = ed.occlusionConfigState

=============================================================================
